---------------------------- MODULE Spec2Model ----------------------------
(***************************************************************************)
(* A model of stoma's routing layer (src/src/routing.py) and of the        *)
(* parameter markers it reads (src/src/params.py).                         *)
(*                                                                         *)
(* Six specifications share the module:                                    *)
(*   - SpecClassify, parameter collection: APIRoute._collect_params        *)
(*     walking the fields of an endpoint instance, one loop iteration per  *)
(*     step;                                                               *)
(*   - SpecRouter, route decoration: APIRouter's methods creating          *)
(*     decorators with api_route_decorator, the decorators being applied   *)
(*     to endpoint classes, and attempted assignments to the frozen        *)
(*     RouteMeta;                                                          *)
(*   - SpecParams, the construction of the markers Path, Query, Header and *)
(*     Body;                                                               *)
(*   - SpecEndpoint, one decorated endpoint class and an instance of it:   *)
(*     decoration, parameter collection and send together;                 *)
(*   - SpecRedeclare, parameter collection on a class and on the class     *)
(*     declared again with other marker attributes or another field order; *)
(*   - SpecCapture, a router whose servers are assigned anew between       *)
(*     creating decorators and applying them to a class and its subclass.  *)
(***************************************************************************)
EXTENDS Naturals, Sequences, FiniteSets

VARIABLES
    cls,            \* the endpoint class: its declared fields, in model_fields order
    self,           \* the endpoint instance: one value per field of cls
    pc,             \* position in _collect_params: "idle", "loop", "returned", "raised"
    idx,            \* index into model_fields of the field the loop visits next
    query_params,   \* local dict query_params
    path_params,    \* local dict path_params
    header_params,  \* local dict header_params
    body_data,      \* local body_data
    prev_result,    \* what the previous call of _collect_params returned (at most one)
    context,        \* the requests sent through the APIRequestContext, in order
    param,          \* the latest marker constructor call and the marker it made
    error,          \* the exception the last operation raised, NoError if none
    router_servers, \* APIRouter.servers
    last_call,      \* arguments of the latest router method call (at most one)
    decorator,      \* the closure update_api_route that call returned (at most one)
    route_meta,     \* per class, the _route_meta set on that class itself
    last_op         \* the latest routing operation performed

classifyVars == <<cls, self, pc, idx, query_params, path_params, header_params, body_data,
                  prev_result, context, param>>
routerVars == <<router_servers, last_call, decorator, route_meta, last_op>>
vars == <<cls, self, pc, idx, query_params, path_params, header_params, body_data,
          prev_result, context, param,
          error, router_servers, last_call, decorator, route_meta, last_op>>

(***************************************************************************)
(* Bounds                                                                  *)
(***************************************************************************)
\* The largest number of fields an endpoint class declares.
MaxFields == 2

\* The largest length to which the servers list of a RouteMeta is extended.
MaxServers == 2

(***************************************************************************)
(* Python values                                                           *)
(***************************************************************************)
\* Python's None where a str or a field value is expected.
None == "<None>"

\* Exceptions.
NoError == "<no error>"
AttributeError == "AttributeError"
NotImplementedError == "NotImplementedError"
FrozenInstanceError == "ValidationError[frozen_instance]"

\* ParamTypes (an Enum); a bare Param has no in_ attribute at all.
ParamTypes == {"query", "header", "path", "body"}
NoIn == "<no attribute in_>"

\* Mutant of StrTruthy: only None is falsy (`is not None`).
StrIsNotNone(s) == s /= None

\* Python truthiness of an optional str: None and "" are falsy.
StrTruthy(s) == s /= None /\ s /= ""

(***************************************************************************)
(* dict: insertion ordered; assigning to a present key keeps its place.    *)
(***************************************************************************)
\* Mutant of EmptyDict: one dict object shared by the three locals and by
\* every call, so a call starts from what the previous call left in it.
LeftoverDict == query_params

EmptyDict == << >>

DictKeys(d) == {d[i][1] : i \in DOMAIN d}

DictHas(d, k) == k \in DictKeys(d)

DictGet(d, k) == LET i == CHOOSE j \in DOMAIN d : d[j][1] = k IN d[i][2]

\* Mutant of DictSet: a present key keeps its first value (setdefault).
DictSetDefault(d, k, v) ==
    IF k \in {d[i][1] : i \in DOMAIN d} THEN d ELSE Append(d, <<k, v>>)

\* Mutant of DictSet: an entry is added whether or not the key is present.
DictSetAppending(d, k, v) == Append(d, <<k, v>>)

\* Mutant of DictSet: a new key is put in front of the others.
DictSetFront(d, k, v) ==
    IF k \in {d[i][1] : i \in DOMAIN d}
    THEN [i \in DOMAIN d |-> IF d[i][1] = k THEN <<k, v>> ELSE d[i]]
    ELSE <<<<k, v>>>> \o d

DictSet(d, k, v) ==
    IF DictHas(d, k)
    THEN [i \in DOMAIN d |-> IF d[i][1] = k THEN <<k, v>> ELSE d[i]]
    ELSE Append(d, <<k, v>>)


(***************************************************************************)
(* Parameter markers (src/src/params.py)                                   *)
(***************************************************************************)
\* An optional argument: << >> is None, <<v>> is the value v.
Nothing == << >>

Some(v) == <<v>>

\* What Param.__init__ keeps of its documentation and constraint arguments:
\* examples are also merged into json_schema_extra, the constraints and the
\* description go to FieldInfo, and deprecated, include_in_schema and examples
\* are set as attributes.
ParamAttributes(examples, deprecated, include_in_schema, json_schema_extra, description, ge, le, pattern) ==
    [examples |-> examples,
     deprecated |-> deprecated,
     include_in_schema |-> include_in_schema,
     json_schema_extra |->
        IF examples /= Nothing
        THEN Some(DictSet(IF json_schema_extra = Nothing THEN << >>
                          ELSE json_schema_extra[1],
                          "examples", examples[1]))
        ELSE json_schema_extra,
     description |-> description,
     ge |-> ge,
     le |-> le,
     pattern |-> pattern]

\* The attributes of a marker constructed without any of these arguments.
DefaultAttributes ==
    ParamAttributes(Nothing, Nothing, TRUE, Nothing, Nothing, Nothing, Nothing, Nothing)

\* A marker object: its in_, its alias, on a Header convert_underscores, and
\* its documentation and constraint attributes. routing.py reads in_ and
\* alias.
Marker(in_, alias, convert_underscores) ==
    [is_param |-> TRUE, in_ |-> in_, alias |-> alias,
     convert_underscores |-> convert_underscores,
     attributes |-> DefaultAttributes]

\* Param(alias=...): the base class sets no in_.
Param(alias) == Marker(NoIn, alias, FALSE)

Path(alias) == Marker("path", alias, FALSE)

Query(alias) == Marker("query", alias, FALSE)

\* Header(alias=..., convert_underscores=...): convert_underscores defaults to True.
Header(alias, convert_underscores) == Marker("header", alias, convert_underscores)

Body(alias) == Marker("body", alias, FALSE)

\* Annotated metadata that is no Param (a constraint, a plain Field, ...).
OtherMetadata ==
    [is_param |-> FALSE, in_ |-> NoIn, alias |-> None, convert_underscores |-> FALSE,
     attributes |-> DefaultAttributes]

\* The None that _get_param_info_from_annotations returns.
NoParamInfo == OtherMetadata

\* A type annotation: Annotated[T, *metadata], or a plain T when not annotated.
PlainAnnotation == [annotated |-> FALSE, metadata |-> << >>]

Annotated(metadata) == [annotated |-> TRUE, metadata |-> metadata]

(***************************************************************************)
(* The endpoint classes and instances explored                             *)
(***************************************************************************)
\* The name of the i-th declared field.
FieldNames == <<"x_request_id", "accept", "limit", "token">>

\* The aliases a marker is given: none, the empty string, a header style
\* name, and the name of another field.
Aliases == {None, "", "X-Request-ID", "accept"}

Markers ==
    {Query(a) : a \in Aliases} \cup {Path(a) : a \in {None, "X-Request-ID"}}
    \cup {Header(a, TRUE) : a \in Aliases}
    \cup {Header(a, FALSE) : a \in {None, "X-Request-ID"}}
    \cup {Body(a) : a \in {None, "X-Request-ID"}}
    \cup {Param(None)}

\* How a field is declared: in the class body itself (own) or in a base class
\* (then the class's own __annotations__ does not hold it), with its annotation.
FieldDeclarations ==
    {[own |-> TRUE, annotation |-> Annotated(<<m>>)] : m \in Markers}
    \cup {[own |-> TRUE, annotation |-> PlainAnnotation],
          [own |-> TRUE, annotation |-> Annotated(<<OtherMetadata>>)],
          [own |-> TRUE, annotation |-> Annotated(<<OtherMetadata, Query(None)>>)]}
    \cup {[own |-> FALSE, annotation |-> Annotated(<<m>>)] :
             m \in {Query(None), Header(None, TRUE), Body(None)}}

\* The values the i-th field takes: None or a value of its own.
FieldValues(i) == {None, <<"20", "Bearer x", "7", "abc">>[i]}

\* A class built from its field declarations d[1], ..., d[n]:
\*   model_fields      the field names in declaration order, inherited included
\*   annotations       the class's own __annotations__
\*   base_annotations  the __annotations__ of its base class
MakeNamedClass(names, d) ==
    [model_fields |-> [i \in DOMAIN d |-> names[i]],
     annotations |->
        [n \in {names[i] : i \in {j \in DOMAIN d : d[j].own}} |->
            LET i == CHOOSE j \in DOMAIN d : names[j] = n IN d[i].annotation],
     base_annotations |->
        [n \in {names[i] : i \in {j \in DOMAIN d : ~d[j].own}} |->
            LET i == CHOOSE j \in DOMAIN d : names[j] = n IN d[i].annotation]]

\* The class whose fields are named after FieldNames.
MakeClass(d) == MakeNamedClass(FieldNames, d)

Classes == UNION {{MakeClass(d) : d \in [1..n -> FieldDeclarations]} : n \in 0..MaxFields}

\* The instances of class k: one value per field (supplied or the default).
Instances(k) ==
    {[n \in {k.model_fields[i] : i \in DOMAIN k.model_fields} |->
        v[CHOOSE i \in DOMAIN k.model_fields : k.model_fields[i] = n]] :
     v \in {w \in [DOMAIN k.model_fields -> UNION {FieldValues(i) : i \in 1..Len(FieldNames)}] :
               \A i \in DOMAIN w : w[i] \in FieldValues(i)}}

(***************************************************************************)
(* APIRoute (src/src/routing.py)                                           *)
(***************************************************************************)
\* The first Param among the metadata, None if there is none.
RECURSIVE FirstParam(_)
FirstParam(metadata) ==
    IF metadata = << >> THEN NoParamInfo
    ELSE IF Head(metadata).is_param THEN Head(metadata)
    ELSE FirstParam(Tail(metadata))

\* Mutant of GetParamInfoFromAnnotations: a field without a marker counts
\* as a query parameter.
GetParamInfoDefaultingToQuery(klass, field_name) ==
    LET annotations == klass.annotations IN
    IF field_name \notin DOMAIN annotations THEN NoParamInfo
    ELSE LET annotation == annotations[field_name] IN
         IF ~annotation.annotated THEN Query(None)
         ELSE IF FirstParam(annotation.metadata).is_param
              THEN FirstParam(annotation.metadata)
              ELSE Query(None)

\* Mutant of GetParamInfoFromAnnotations: the markers of a class that has no
\* _route_meta are not read.
GetParamInfoOfDecoratedOnly(klass, field_name) ==
    LET annotations == klass.annotations IN
    IF route_meta = << >> THEN NoParamInfo
    ELSE IF field_name \notin DOMAIN annotations THEN NoParamInfo
    ELSE LET annotation == annotations[field_name] IN
         IF ~annotation.annotated THEN NoParamInfo
         ELSE IF Len(annotation.metadata) < 1 THEN NoParamInfo
         ELSE FirstParam(annotation.metadata)

\* Mutant of GetParamInfoFromAnnotations: a marker with
\* include_in_schema=False is passed over.
GetParamInfoInSchemaOnly(klass, field_name) ==
    LET annotations == klass.annotations IN
    IF field_name \notin DOMAIN annotations THEN NoParamInfo
    ELSE LET annotation == annotations[field_name] IN
         IF ~annotation.annotated THEN NoParamInfo
         ELSE IF Len(annotation.metadata) < 1 THEN NoParamInfo
         ELSE IF FirstParam(annotation.metadata).attributes.include_in_schema
              THEN FirstParam(annotation.metadata)
              ELSE NoParamInfo

\* APIRoute._get_param_info_from_annotations
GetParamInfoFromAnnotations(klass, field_name) ==
    LET annotations == klass.annotations IN
    IF field_name \notin DOMAIN annotations THEN NoParamInfo
    ELSE LET annotation == annotations[field_name] IN
         IF ~annotation.annotated THEN NoParamInfo
         ELSE IF Len(annotation.metadata) < 1 THEN NoParamInfo
         ELSE FirstParam(annotation.metadata)

\* Mutant of GetParamName: the alias is ignored.
GetParamNameIgnoringAlias(param_info, field_name) == field_name

\* Mutant of GetParamName: a Header's convert_underscores is applied.
GetParamNameConverting(param_info, field_name) ==
    IF StrTruthy(param_info.alias) THEN param_info.alias
    ELSE IF param_info.in_ = "header" /\ param_info.convert_underscores
         THEN (CASE field_name = "x_request_id" -> "X-Request-Id"
                 [] field_name = "accept" -> "Accept"
                 [] field_name = "limit" -> "Limit"
                 [] field_name = "token" -> "Token")
         ELSE field_name

\* APIRoute._get_param_name
GetParamName(param_info, field_name) ==
    IF StrTruthy(param_info.alias) THEN param_info.alias ELSE field_name

\* Mutant of SetBody: the body is the value serialized.
SetBodySerialized(body, field_value) == "<json>"

\* Mutant of SetBody: the first Body field's value is kept.
KeepFirstBody(body, field_value) == IF body = None THEN field_value ELSE body

\* body_data = field_value: a Body field's value replaces the body so far.
SetBody(body, field_value) == field_value

\* The field the loop of _collect_params visits at this step.
FieldName == cls.model_fields[idx]

\* The class object that cls describes, where a specification has both the
\* declaration of an endpoint class and what is attached to it.
EndpointClass == "GetUsers"

\* Mutant of GetAttr: the route's method and path are stored as attributes
\* named method and path, where they shadow the instance's fields.
GetAttrShadowedByRoute(instance, field_name) ==
    IF field_name \in {"method", "path"} /\ EndpointClass \in DOMAIN route_meta
    THEN route_meta[EndpointClass][field_name]
    ELSE instance[field_name]

\* getattr(self, field_name): the value of the instance's field.
GetAttr(instance, field_name) == instance[field_name]

\* What _collect_params returns: the four locals.
NoResult == << >>

CollectResult(query, path, header, body) ==
    [query |-> query, path |-> path, header |-> header, body |-> body]

\* No marker constructor has been called.
NoParamCall == [call |-> << >>, result |-> << >>]

(***************************************************************************)
(* Optional lists of servers                                               *)
(***************************************************************************)
\* servers: list[str] | None
NoServers == [is_none |-> TRUE, items |-> << >>]

ServerList(items) == [is_none |-> FALSE, items |-> items]

\* Python truthiness of an optional list: None and [] are falsy.
ListTruthy(s) == ~s.is_none /\ s.items /= << >>

\* Mutant of PyOr: the router's servers take precedence (`b or a`).
PyOrSwapped(a, b) == IF ListTruthy(b) THEN b ELSE a

\* Python's `a or b`.
PyOr(a, b) == IF ListTruthy(a) THEN a ELSE b

\* A routing operation as last_op records it: what was done, to which class,
\* to which attribute; a decoration also records the class object the
\* decorator returned and whether it replaced a different _route_meta.
RoutingOp(op, klass, attr) ==
    [op |-> op, klass |-> klass, attr |-> attr, returned |-> "", replaced |-> FALSE]

\* The state of the routing part before any router exists.
InitRouterIdle ==
    /\ router_servers = NoServers
    /\ last_call = << >>
    /\ decorator = << >>
    /\ route_meta = << >>
    /\ last_op = RoutingOp("init", "", "")

InitClassify ==
    /\ InitRouterIdle
    /\ cls \in Classes
    /\ self \in Instances(cls)
    /\ pc = "idle"
    /\ idx = 1
    /\ query_params = << >>
    /\ path_params = << >>
    /\ header_params = << >>
    /\ body_data = None
    /\ prev_result = NoResult
    /\ context = << >>
    /\ param = NoParamCall
    /\ error = NoError

\* _collect_params is called: its locals are initialised.
CollectBegin ==
    /\ pc \in {"idle", "returned", "raised"}
    /\ pc' = "loop"
    /\ idx' = 1
    /\ query_params' = EmptyDict
    /\ path_params' = EmptyDict
    /\ header_params' = EmptyDict
    /\ body_data' = None
    /\ error' = NoError
    /\ prev_result' =
        IF pc = "returned"
        THEN <<CollectResult(query_params, path_params, header_params, body_data)>>
        ELSE prev_result
    /\ UNCHANGED <<cls, self, context, param>>
    /\ UNCHANGED routerVars

\* One iteration of the loop over model_fields.
CollectField ==
    /\ pc = "loop"
    /\ idx <= Len(cls.model_fields)
    /\ LET field_name == FieldName
           field_value == GetAttr(self, field_name)
           param_info == GetParamInfoFromAnnotations(cls, field_name)
           param_name == GetParamName(param_info, field_name)
       IN
       \/ /\ ~param_info.is_param
          /\ idx' = idx + 1
          /\ UNCHANGED <<pc, error, query_params, path_params, header_params, body_data>>
       \/ /\ param_info.is_param
          /\ param_info.in_ = NoIn
          /\ pc' = "raised"
          /\ error' = AttributeError
          /\ query_params' = EmptyDict
          /\ path_params' = EmptyDict
          /\ header_params' = EmptyDict
          /\ body_data' = None
          /\ UNCHANGED idx
       \/ /\ param_info.is_param
          /\ param_info.in_ = "query"
          /\ query_params' = DictSet(query_params, param_name, field_value)
          /\ idx' = idx + 1
          /\ UNCHANGED <<pc, error, path_params, header_params, body_data>>
       \/ /\ param_info.is_param
          /\ param_info.in_ = "path"
          /\ path_params' = DictSet(path_params, param_name, field_value)
          /\ idx' = idx + 1
          /\ UNCHANGED <<pc, error, query_params, header_params, body_data>>
       \/ /\ param_info.is_param
          /\ param_info.in_ = "header"
          /\ header_params' = DictSet(header_params, param_name, field_value)
          /\ idx' = idx + 1
          /\ UNCHANGED <<pc, error, query_params, path_params, body_data>>
       \/ /\ param_info.is_param
          /\ param_info.in_ = "body"
          /\ body_data' = SetBody(body_data, field_value)
          /\ idx' = idx + 1
          /\ UNCHANGED <<pc, error, query_params, path_params, header_params>>
    /\ UNCHANGED <<cls, self, prev_result, context, param>>
    /\ UNCHANGED routerVars

\* The loop is over: the four locals are returned.
CollectReturn ==
    /\ pc = "loop"
    /\ idx > Len(cls.model_fields)
    /\ pc' = "returned"
    /\ UNCHANGED <<cls, self, idx, error, query_params, path_params, header_params, body_data,
                   prev_result, context, param>>
    /\ UNCHANGED routerVars

NextClassify == CollectBegin \/ CollectField \/ CollectReturn

SpecClassify == InitClassify /\ [][NextClassify]_vars

(***************************************************************************)
(* An endpoint class declared a second time, its instance keeping its      *)
(* field values                                                            *)
(***************************************************************************)
\* Query(examples=..., deprecated=True, include_in_schema=False,
\*       description="page size", ge=1, le=100, pattern="^[a-z]+$"), the
\* list of examples being kept as one value.
DocumentedAttributes ==
    ParamAttributes(Some("20"), Some(TRUE), FALSE, Nothing, Some("page size"),
                    Some(1), Some(100), Some("^[a-z]+$"))

\* Query(json_schema_extra={"format": "int32"}, ge=0)
ConstrainedAttributes ==
    ParamAttributes(Nothing, Nothing, TRUE, Some(<<<<"format", "int32">>>>), Nothing,
                    Some(0), Nothing, Nothing)

AttributeChoices == {DefaultAttributes, DocumentedAttributes, ConstrainedAttributes}

\* The fields of the classes that are declared anew.
RedeclaredFields ==
    {[own |-> TRUE, annotation |-> Annotated(<<m>>)] :
        m \in {Query(None), Query("accept"), Header(None, TRUE), Path(None), Body(None)}}
    \cup {[own |-> TRUE, annotation |-> PlainAnnotation]}

RedeclaredClasses ==
    UNION {{MakeClass(d) : d \in [1..n -> RedeclaredFields]} : n \in 0..MaxFields}

InitRedeclare ==
    /\ InitRouterIdle
    /\ cls \in RedeclaredClasses
    /\ self \in Instances(cls)
    /\ pc = "idle"
    /\ idx = 1
    /\ query_params = << >>
    /\ path_params = << >>
    /\ header_params = << >>
    /\ body_data = None
    /\ prev_result = NoResult
    /\ context = << >>
    /\ param = NoParamCall
    /\ error = NoError

\* The sequence s with its i-th and j-th elements exchanged.
Swap(s, i, j) ==
    [k \in DOMAIN s |-> IF k = i THEN s[j] ELSE IF k = j THEN s[i] ELSE s[k]]

\* After _collect_params returned for one of RedeclaredClasses, a class is
\* declared with what klass is to be and instantiated with the values of
\* self: what was returned, and the class it was returned for, are kept for
\* comparison.
Redeclared(klass) ==
    /\ pc = "returned"
    /\ cls \in RedeclaredClasses
    /\ klass /= cls
    /\ cls' = klass
    /\ prev_result' =
        <<CollectResult(query_params, path_params, header_params, body_data), cls>>
    /\ pc' = "idle"
    /\ UNCHANGED <<self, idx, query_params, path_params, header_params, body_data,
                   context, param, error>>
    /\ UNCHANGED routerVars

\* The class with other documentation and constraint arguments to the marker
\* of one field.
Redocument ==
    \E n \in DOMAIN cls.annotations, a \in AttributeChoices :
        /\ cls.annotations[n].annotated
        /\ cls.annotations[n].metadata[1].is_param
        /\ Redeclared([cls EXCEPT !.annotations[n].metadata[1].attributes = a])

\* The class with two of its fields declared in the other order.
Reorder ==
    \E i, j \in DOMAIN cls.model_fields :
        /\ i < j
        /\ Redeclared([cls EXCEPT !.model_fields = Swap(cls.model_fields, i, j)])

NextRedeclare ==
    \/ CollectBegin
    \/ CollectField
    \/ CollectReturn
    \/ Redocument
    \/ Reorder

SpecRedeclare == InitRedeclare /\ [][NextRedeclare]_vars

(***************************************************************************)
(* RouteMeta, api_route_decorator and APIRouter (src/src/routing.py)       *)
(***************************************************************************)
\* Mutant of RouteMetaFrozen: the model is not frozen.
RouteMetaNotFrozen == FALSE

\* model_config = ConfigDict(frozen=True)
RouteMetaFrozen == TRUE

\* RouteMeta(method=..., path=..., servers=...)
RouteMeta(method, path, servers) ==
    [method |-> method, path |-> path, servers |-> servers]

\* api_route_decorator(method=..., path=..., servers=...): the closure
\* update_api_route, holding the three arguments.
ApiRouteDecorator(method, path, servers) ==
    [method |-> method, path |-> path, servers |-> servers]

\* Mutant of UpdateApiRoute: a class that has a _route_meta keeps it.
UpdateApiRouteKeepingFirst(closure, metas, klass) ==
    [c \in DOMAIN metas \cup {klass} |->
        IF c \in DOMAIN metas
        THEN metas[c]
        ELSE RouteMeta(closure.method, closure.path, closure.servers)]

\* Mutant of UpdateApiRoute: the router's servers are read when the decorator
\* is applied, not when it is created.
UpdateApiRouteLateBinding(closure, metas, klass) ==
    [c \in DOMAIN metas \cup {klass} |->
        IF c = klass
        THEN RouteMeta(closure.method, closure.path,
                       PyOr(last_call[1].servers, router_servers))
        ELSE metas[c]]

\* Mutant of UpdateApiRoute: the metadata is set on every class that holds
\* one, as if the attribute were shared.
UpdateApiRouteShared(closure, metas, klass) ==
    [c \in DOMAIN metas \cup {klass} |->
        RouteMeta(closure.method, closure.path, closure.servers)]

\* update_api_route(cls): sets cls._route_meta on the class itself.
UpdateApiRoute(closure, metas, klass) ==
    [c \in DOMAIN metas \cup {klass} |->
        IF c = klass
        THEN RouteMeta(closure.method, closure.path, closure.servers)
        ELSE metas[c]]

\* Mutant of UpdateApiRouteReturn: the decorator returns a new class.
UpdateApiRouteReturnNewClass(klass) == "<new class>"

\* update_api_route(cls): `return cls`, the class object it was given.
UpdateApiRouteReturn(klass) == klass

\* APIRouter.get, .post, .put, .patch, .delete on a router whose servers are
\* self_servers.
APIRouterGet(self_servers, path, servers) ==
    ApiRouteDecorator("GET", path, PyOr(servers, self_servers))

APIRouterPost(self_servers, path, servers) ==
    ApiRouteDecorator("POST", path, PyOr(servers, self_servers))

APIRouterPut(self_servers, path, servers) ==
    ApiRouteDecorator("PUT", path, PyOr(servers, self_servers))

\* Mutant of APIRouterPatch: the method of the neighbouring router method.
APIRouterPatchAsPut(self_servers, path, servers) ==
    ApiRouteDecorator("PUT", path, PyOr(servers, self_servers))

APIRouterPatch(self_servers, path, servers) ==
    ApiRouteDecorator("PATCH", path, PyOr(servers, self_servers))

APIRouterDelete(self_servers, path, servers) ==
    ApiRouteDecorator("DELETE", path, PyOr(servers, self_servers))

\* The endpoint classes that get decorated.
EndpointClasses == {"GetUsers", "GetUserById"}

\* The arguments explored.
ServerA == "https://api.example.com"

ServerB == "https://api-staging.example.com"

RouterServers == {NoServers, ServerList(<< >>), ServerList(<<ServerA>>)}

ServersArguments == {NoServers, ServerList(<< >>), ServerList(<<ServerB>>)}

Paths == {"/users", "/users/{user_id}"}

RouteMetaFields == {"method", "path", "servers"}

\* router = APIRouter(servers=...)
InitRouter ==
    /\ router_servers \in RouterServers
    /\ last_call = << >>
    /\ decorator = << >>
    /\ route_meta = << >>
    /\ last_op = RoutingOp("init", "", "")
    /\ error = NoError
    /\ cls = MakeClass(<< >>)
    /\ self = << >>
    /\ pc = "idle"
    /\ idx = 1
    /\ query_params = << >>
    /\ path_params = << >>
    /\ header_params = << >>
    /\ body_data = None
    /\ prev_result = NoResult
    /\ context = << >>
    /\ param = NoParamCall

\* A router method is called: the decorator it returns is kept.
Called(fn, path, servers, closure) ==
    /\ pc /= "loop"
    /\ last_call' = <<[fn |-> fn, path |-> path, servers |-> servers,
                       self_servers |-> router_servers]>>
    /\ decorator' = <<closure>>
    /\ last_op' = RoutingOp("call", "", "")
    /\ error' = NoError
    /\ UNCHANGED <<router_servers, route_meta>>
    /\ UNCHANGED classifyVars

RouterGet ==
    \E path \in Paths, servers \in ServersArguments :
        Called("get", path, servers, APIRouterGet(router_servers, path, servers))

RouterPost ==
    \E path \in Paths, servers \in ServersArguments :
        Called("post", path, servers, APIRouterPost(router_servers, path, servers))

RouterPut ==
    \E path \in Paths, servers \in ServersArguments :
        Called("put", path, servers, APIRouterPut(router_servers, path, servers))

RouterPatch ==
    \E path \in Paths, servers \in ServersArguments :
        Called("patch", path, servers, APIRouterPatch(router_servers, path, servers))

RouterDelete ==
    \E path \in Paths, servers \in ServersArguments :
        Called("delete", path, servers, APIRouterDelete(router_servers, path, servers))

\* The decorator is applied to the endpoint class klass.
DecorateClass(klass) ==
    /\ pc /= "loop"
    /\ decorator /= << >>
    /\ route_meta' = UpdateApiRoute(decorator[1], route_meta, klass)
    /\ last_op' = [op |-> "decorate", klass |-> klass, attr |-> "",
                   returned |-> UpdateApiRouteReturn(klass),
                   replaced |->
                        /\ klass \in DOMAIN route_meta
                        /\ route_meta[klass] /= UpdateApiRoute(decorator[1], route_meta, klass)[klass]]
    /\ error' = NoError
    /\ UNCHANGED <<router_servers, last_call, decorator>>
    /\ UNCHANGED classifyVars

\* The decorator is applied to an endpoint class.
Decorate == \E klass \in EndpointClasses : DecorateClass(klass)

\* klass._route_meta.<attr> = value
SetRouteMetaAttr ==
    \E klass \in DOMAIN route_meta, attr \in RouteMetaFields :
        /\ pc /= "loop"
        /\ last_op' = RoutingOp("setattr", "", attr)
        /\ IF RouteMetaFrozen
           THEN /\ error' = FrozenInstanceError
                /\ UNCHANGED route_meta
           ELSE /\ error' = NoError
                /\ \E value \in
                        CASE attr = "method" -> {"GET", "POST", "PUT", "PATCH", "DELETE"}
                          [] attr = "path" -> Paths
                          [] attr = "servers" -> ServersArguments :
                        route_meta' = [route_meta EXCEPT ![klass][attr] = value]
        /\ UNCHANGED <<router_servers, last_call, decorator>>
        /\ UNCHANGED classifyVars

NextRouter ==
    \/ RouterGet
    \/ RouterPost
    \/ RouterPut
    \/ RouterPatch
    \/ RouterDelete
    \/ Decorate
    \/ SetRouteMetaAttr

SpecRouter == InitRouter /\ [][NextRouter]_vars

(***************************************************************************)
(* A router whose servers are assigned anew                                *)
(***************************************************************************)
\* router.servers = servers: APIRouter is a plain class, the assignment
\* rebinds the attribute.
SetRouterServers ==
    \E servers \in RouterServers :
        /\ pc /= "loop"
        /\ router_servers' = servers
        /\ last_op' = RoutingOp("set_servers", "", "servers")
        /\ error' = NoError
        /\ UNCHANGED <<last_call, decorator, route_meta>>
        /\ UNCHANGED classifyVars

\* The hierarchy explored: class GetUsers(APIRoute[...]) and
\* class GetUserById(GetUsers); APIRoute itself only annotates _route_meta
\* and holds no value for it.
BaseOf(klass) == IF klass = "GetUserById" THEN "GetUsers" ELSE "APIRoute"

\* klass._route_meta: the attribute set on the class itself, else the one set
\* on its base; << >> when neither holds one (AttributeError).
GetRouteMeta(metas, klass) ==
    IF klass \in DOMAIN metas
    THEN <<metas[klass]>>
    ELSE IF BaseOf(klass) \in DOMAIN metas
         THEN <<metas[BaseOf(klass)]>>
         ELSE << >>

NextCapture ==
    \/ RouterGet
    \/ Decorate
    \/ SetRouterServers

SpecCapture == InitRouter /\ [][NextCapture]_vars

(***************************************************************************)
(* One endpoint class, decorated, and an instance of it                    *)
(***************************************************************************)
\* A field the class itself declares as Annotated[T, marker].
Declared(marker) == [own |-> TRUE, annotation |-> Annotated(<<marker>>)]

\* The endpoint classes explored: DebugEndpoint, whose fields are named like
\* the fields of RouteMeta, the same fields under other markers, and
\* GetUserById.
EndpointTypes ==
    {MakeNamedClass(<<"method", "path", "servers">>, d) :
        d \in {<<Declared(Query(None)), Declared(Query(None)), Declared(Query(None))>>,
               <<Declared(Path(None)), Declared(Query(None)), Declared(Header(None, TRUE))>>,
               <<Declared(Body(None)), Declared(Path(None)), Declared(Query(None))>>,
               <<Declared(Param(None)), Declared(Query(None)), Declared(Query(None))>>}}
    \cup {MakeNamedClass(<<"user_id">>, <<Declared(Path(None))>>)}

\* The instance of k whose fields are all supplied by the caller.
Supplied(k) == CHOOSE s \in Instances(k) : \A n \in DOMAIN s : s[n] /= None

\* A server appended to the list a RouteMeta holds.
ServerC == "https://custom.com"

\* Mutant of APIRouteSend: send is implemented and issues the request.
APIRouteSendImplemented(instance, ctx) ==
    [raised |-> NoError, context |-> <<"request">>]

\* APIRoute.send(self, context): raises NotImplementedError; the context is
\* not used.
APIRouteSend(instance, ctx) ==
    [raised |-> NotImplementedError, context |-> ctx]

InitEndpoint ==
    /\ router_servers = ServerList(<<ServerA>>)
    /\ last_call = << >>
    /\ decorator = << >>
    /\ route_meta = << >>
    /\ last_op = RoutingOp("init", "", "")
    /\ error = NoError
    /\ cls \in EndpointTypes
    /\ self = Supplied(cls)
    /\ pc = "idle"
    /\ idx = 1
    /\ query_params = << >>
    /\ path_params = << >>
    /\ header_params = << >>
    /\ body_data = None
    /\ prev_result = NoResult
    /\ context = << >>
    /\ param = NoParamCall

\* api_route_decorator(method=..., path=..., servers=...) is called directly:
\* the Literal type of method is not checked when the program runs.
ApiRouteDecoratorCalled ==
    \E method \in {"DELETE", "OPTIONS"}, path \in Paths :
        Called("api_route_decorator", path, NoServers,
               ApiRouteDecorator(method, path, NoServers))

\* instance.send(context)
Send ==
    /\ pc /= "loop"
    /\ LET outcome == APIRouteSend(self, context) IN
        /\ error' = outcome.raised
        /\ context' = outcome.context
    /\ last_op' = RoutingOp("send", EndpointClass, "")
    /\ UNCHANGED <<cls, self, pc, idx, query_params, path_params, header_params,
                   body_data, prev_result, param>>
    /\ UNCHANGED <<router_servers, last_call, decorator, route_meta>>

\* klass._route_meta.servers.append(ServerC): the list that the frozen
\* RouteMeta holds is an ordinary list; None has no append.
ExtendMetaServers ==
    \E klass \in DOMAIN route_meta :
        /\ pc /= "loop"
        /\ last_op' = RoutingOp("append", klass, "servers")
        /\ \/ /\ route_meta[klass].servers.is_none
              /\ error' = AttributeError
              /\ UNCHANGED route_meta
           \/ /\ ~route_meta[klass].servers.is_none
              /\ Len(route_meta[klass].servers.items) < MaxServers
              /\ error' = NoError
              /\ route_meta' =
                    [route_meta EXCEPT ![klass].servers =
                        ServerList(Append(route_meta[klass].servers.items, ServerC))]
        /\ UNCHANGED <<router_servers, last_call, decorator>>
        /\ UNCHANGED classifyVars

NextEndpoint ==
    \/ RouterPost
    \/ ApiRouteDecoratorCalled
    \/ DecorateClass(EndpointClass)
    \/ SetRouteMetaAttr
    \/ ExtendMetaServers
    \/ CollectBegin
    \/ CollectField
    \/ CollectReturn
    \/ Send

SpecEndpoint == InitEndpoint /\ [][NextEndpoint]_vars

(***************************************************************************)
(* Constructing the markers (src/src/params.py)                            *)
(***************************************************************************)
\* _Unset: Any = ...  (Python's Ellipsis)
Unset == "<Ellipsis>"

\* pydantic's PydanticUndefined, the default of a FieldInfo given none.
PydanticUndefined == "<PydanticUndefined>"

\* The TypeError Python raises when a call does not fit the signature, and
\* FieldInfo raises when given both default and default_factory.
TypeError == "TypeError"

\* A keyword argument the caller did not pass.
NotPassed == "<not passed>"

\* A constructor either raises or makes an object.
Raise(exception) == [raised |-> exception, object |-> << >>]

Return(object) == [raised |-> NoError, object |-> <<object>>]

\* Mutant of FieldInfoInit: an Ellipsis default is kept as it is.
FieldInfoInitKeepingEllipsis(in_, default, default_factory, alias, convert_underscores) ==
    LET factory == IF default_factory = NotPassed THEN None ELSE default_factory IN
    IF default /= PydanticUndefined /\ factory /= None
    THEN Raise(TypeError)
    ELSE Return([in_ |-> in_, alias |-> alias, default |-> default,
                 default_factory |-> factory,
                 convert_underscores |-> convert_underscores])

\* FieldInfo.__init__(**kwargs) as Param.__init__ calls it: an Ellipsis default
\* becomes PydanticUndefined, a missing default_factory is None, and a default
\* together with a default_factory is a TypeError.  in_ and convert_underscores
\* are what the object being initialised already carries.
FieldInfoInit(in_, default, default_factory, alias, convert_underscores) ==
    LET stored == IF default = Unset THEN PydanticUndefined ELSE default
        factory == IF default_factory = NotPassed THEN None ELSE default_factory
    IN
    IF stored /= PydanticUndefined /\ factory /= None
    THEN Raise(TypeError)
    ELSE Return([in_ |-> in_, alias |-> alias, default |-> stored,
                 default_factory |-> factory,
                 convert_underscores |-> convert_underscores])

\* Param.__init__(self, default=_Unset, *, default_factory=_Unset, alias=None, ...):
\* default_factory goes into kwargs only when it is not _Unset.
ParamInit(in_, default, default_factory, alias, convert_underscores) ==
    FieldInfoInit(in_, default,
                  IF default_factory = Unset THEN NotPassed ELSE default_factory,
                  alias, convert_underscores)

\* A constructor call: the positional arguments and the keyword arguments
\* default, default_factory, alias and convert_underscores.
ParamCall(class, args, default, default_factory, alias, convert_underscores) ==
    [class |-> class, args |-> args, default |-> default,
     default_factory |-> default_factory, alias |-> alias,
     convert_underscores |-> convert_underscores]

\* The value a keyword-only parameter with default _Unset is bound to.
DefaultFactoryOf(call) ==
    IF call.default_factory = NotPassed THEN Unset ELSE call.default_factory

\* Param(...): default is the one parameter that may be given positionally.
ParamNew(call) ==
    IF Len(call.args) > 1 \/ (Len(call.args) = 1 /\ call.default /= NotPassed)
    THEN Raise(TypeError)
    ELSE ParamInit(NoIn,
                   IF Len(call.args) = 1 THEN call.args[1]
                   ELSE IF call.default /= NotPassed THEN call.default
                   ELSE Unset,
                   DefaultFactoryOf(call), call.alias, FALSE)

\* The four subclasses take keyword arguments only and have no parameter
\* default: a keyword default lands in **extra and meets the default= that the
\* subclass itself passes to Param.__init__.
PathNew(call) ==
    IF call.args /= << >> \/ call.default /= NotPassed
    THEN Raise(TypeError)
    ELSE ParamInit("path", Unset, DefaultFactoryOf(call), call.alias, FALSE)

\* Mutant of QueryNew: Query has Param's parameter default and passes it on.
QueryNewWithDefault(call) ==
    IF call.args /= << >>
    THEN Raise(TypeError)
    ELSE ParamInit("query",
                   IF call.default /= NotPassed THEN call.default ELSE Unset,
                   DefaultFactoryOf(call), call.alias, FALSE)

QueryNew(call) ==
    IF call.args /= << >> \/ call.default /= NotPassed
    THEN Raise(TypeError)
    ELSE ParamInit("query", Unset, DefaultFactoryOf(call), call.alias, FALSE)

HeaderNew(call) ==
    IF call.args /= << >> \/ call.default /= NotPassed
    THEN Raise(TypeError)
    ELSE ParamInit("header", Unset, DefaultFactoryOf(call), call.alias,
                   call.convert_underscores)

BodyNew(call) ==
    IF call.args /= << >> \/ call.default /= NotPassed
    THEN Raise(TypeError)
    ELSE ParamInit("body", Unset, DefaultFactoryOf(call), call.alias, FALSE)

\* The calls explored: a default given by position, by keyword (a value or
\* None) or not at all; default_factory not given, None or a callable.
ParamCalls(class, flags) ==
    {ParamCall(class, args, default, default_factory, alias, convert_underscores) :
        args \in {<< >>, <<"20">>},
        default \in {NotPassed, "20", None},
        default_factory \in {NotPassed, None, "time.time"},
        alias \in {None, "X-Request-ID"},
        convert_underscores \in flags}

InitParams ==
    /\ InitRouterIdle
    /\ cls = MakeClass(<< >>)
    /\ self = << >>
    /\ pc = "idle"
    /\ idx = 1
    /\ query_params = << >>
    /\ path_params = << >>
    /\ header_params = << >>
    /\ body_data = None
    /\ prev_result = NoResult
    /\ context = << >>
    /\ param = NoParamCall
    /\ error = NoError

\* A constructor was called: it raised or returned the marker.
Constructed(call, outcome) ==
    /\ param' = [call |-> <<call>>, result |-> outcome.object]
    /\ error' = outcome.raised
    /\ UNCHANGED <<cls, self, pc, idx, query_params, path_params, header_params,
                   body_data, prev_result, context>>
    /\ UNCHANGED routerVars

NewParam == \E call \in ParamCalls("Param", {FALSE}) : Constructed(call, ParamNew(call))

NewPath == \E call \in ParamCalls("Path", {FALSE}) : Constructed(call, PathNew(call))

NewQuery == \E call \in ParamCalls("Query", {FALSE}) : Constructed(call, QueryNew(call))

NewHeader == \E call \in ParamCalls("Header", BOOLEAN) : Constructed(call, HeaderNew(call))

NewBody == \E call \in ParamCalls("Body", {FALSE}) : Constructed(call, BodyNew(call))

NextParams == NewParam \/ NewPath \/ NewQuery \/ NewHeader \/ NewBody

SpecParams == InitParams /\ [][NextParams]_vars

(***************************************************************************)
(* Parameter collection: the claims                                        *)
(***************************************************************************)
\* What the class declares, read off the declaration itself.
FieldIndexes == DOMAIN cls.model_fields

NameOf(i) == cls.model_fields[i]

\* The annotation of field i, wherever it is declared.
DeclaredAnnotation(i) ==
    IF NameOf(i) \in DOMAIN cls.annotations
    THEN cls.annotations[NameOf(i)]
    ELSE cls.base_annotations[NameOf(i)]

\* Field i carries a marker.
Marked(i) ==
    \E j \in DOMAIN DeclaredAnnotation(i).metadata :
        DeclaredAnnotation(i).metadata[j].is_param

\* Field i is declared, with a marker, in the body of the class itself.
OwnMarked(i) == NameOf(i) \in DOMAIN cls.annotations /\ Marked(i)

MarkerOf(i) ==
    LET md == DeclaredAnnotation(i).metadata
    IN md[CHOOSE j \in DOMAIN md :
             md[j].is_param /\ \A k \in DOMAIN md : k < j => ~md[k].is_param]

\* The fields that carry a marker of kind k, and those among them that the
\* class itself declares.
OfKind(k) == {i \in FieldIndexes : Marked(i) /\ MarkerOf(i).in_ = k}

OwnOfKind(k) == {i \in OfKind(k) : OwnMarked(i)}

\* The wire name of a marked field: its alias unless that is None or empty.
WireName(i) ==
    IF MarkerOf(i).alias \notin {None, ""} THEN MarkerOf(i).alias ELSE NameOf(i)

\* The map _collect_params returns for kind k.
Bucket(k) ==
    CASE k = "query" -> query_params
      [] k = "path" -> path_params
      [] k = "header" -> header_params

MapKinds == {"query", "path", "header"}

Latest(S) == CHOOSE i \in S : \A j \in S : j <= i

\* The fields of kind k that have the wire name of field i.
SameEntry(k, i) == {j \in OfKind(k) : WireName(j) = WireName(i)}

\* Every key of every map is the wire name of a field of that map's kind.
KeysComeFromTheirKind ==
    \A k \in MapKinds : \A w \in DictKeys(Bucket(k)) :
        \E j \in OfKind(k) : WireName(j) = w

C2_UnmarkedFieldsExcluded ==
    [][(pc = "loop" /\ idx <= Len(cls.model_fields) /\ ~Marked(idx)) =>
          /\ query_params' = query_params
          /\ path_params' = path_params
          /\ header_params' = header_params
          /\ body_data' = body_data
          /\ pc' = "loop"]_vars

\* C2 witness: _collect_params returned for a class with an unmarked field
\* holding a value and a query field; only the query field was collected.
C2_Witness ==
    /\ pc = "returned"
    /\ Len(cls.model_fields) = 2
    /\ ~Marked(1)
    /\ self[NameOf(1)] = "20"
    /\ OwnOfKind("query") = {2}
    /\ query_params = <<<<"accept", "Bearer x">>>>
    /\ path_params = EmptyDict
    /\ header_params = EmptyDict
    /\ body_data = None

ConventionalHeaderForm(field_name) ==
    CASE field_name = "x_request_id" -> "X-Request-Id"
      [] field_name = "accept" -> "Accept"
      [] field_name = "limit" -> "Limit"
      [] field_name = "token" -> "Token"

\* C4 as claimed: on return a Header field with no alias is collected under
\* the conventional header form of its name when convert_underscores is
\* True, and under its name when convert_underscores is False.
C4_HeaderUnderscoreConversion ==
    pc = "returned" =>
        \A i \in OwnOfKind("header") :
            MarkerOf(i).alias = None =>
                IF MarkerOf(i).convert_underscores
                THEN DictHas(header_params, ConventionalHeaderForm(NameOf(i)))
                ELSE DictHas(header_params, NameOf(i))

C6_LastBodyWins ==
    (/\ Cardinality(OwnOfKind("body")) > 1
     /\ OfKind("body") = OwnOfKind("body")
     /\ OwnOfKind(NoIn) = {}) =>
        /\ pc /= "raised"
        /\ error = NoError
        /\ pc = "returned" =>
              /\ body_data = self[NameOf(Latest(OfKind("body")))]
              /\ \A k \in MapKinds : \A w \in DictKeys(Bucket(k)) :
                    \E j \in OfKind(k) : j \notin OfKind("body") /\ WireName(j) = w

\* C6 witness: two Body fields with different values; the second one's
\* value is the body.
C6_Witness ==
    /\ pc = "returned"
    /\ OwnOfKind("body") = {1, 2}
    /\ self[NameOf(1)] = "20"
    /\ self[NameOf(2)] = "Bearer x"
    /\ body_data = "Bearer x"

(***************************************************************************)
(* Route decoration: the claims                                            *)
(***************************************************************************)
\* The router method call that created the decorator applied last, and the
\* metadata this application attached.
DecoratingCall == last_call[1]

AttachedMeta == route_meta[last_op.klass]

\* C7: after a decorator from router.get/post/put/patch/delete is applied,
\* the attached RouteMeta.servers is the per-route list when a non-empty one
\* was passed, the router's servers when the argument was omitted, and None
\* when the router has none and none was passed.
C7_RouterOverrideLaw ==
    last_op.op = "decorate" =>
        /\ ListTruthy(DecoratingCall.servers) =>
              AttachedMeta.servers = DecoratingCall.servers
        /\ DecoratingCall.servers = NoServers =>
              AttachedMeta.servers = DecoratingCall.self_servers
        /\ (DecoratingCall.servers = NoServers /\ DecoratingCall.self_servers = NoServers) =>
              AttachedMeta.servers = NoServers

\* C7 witness: a router with servers [A] decorated a class through a call
\* that passed servers [B], and the class's metadata holds [B].
C7_Witness ==
    /\ last_op.op = "decorate"
    /\ DecoratingCall.self_servers = ServerList(<<ServerA>>)
    /\ DecoratingCall.servers = ServerList(<<ServerB>>)
    /\ AttachedMeta.servers = ServerList(<<ServerB>>)

\* C8 as claimed: whenever a servers value other than None is passed (the
\* empty list included), the attached RouteMeta.servers is the passed value.
C8_ExplicitServersAlwaysOverride ==
    (last_op.op = "decorate" /\ DecoratingCall.servers /= NoServers) =>
        AttachedMeta.servers = DecoratingCall.servers

\* C9: the metadata attached through router.get/post/put/patch/delete has
\* the method GET/POST/PUT/PATCH/DELETE and the path passed to the call.
C9_MethodAndPathAttached ==
    last_op.op = "decorate" =>
        /\ AttachedMeta.method =
              (CASE DecoratingCall.fn = "get" -> "GET"
                 [] DecoratingCall.fn = "post" -> "POST"
                 [] DecoratingCall.fn = "put" -> "PUT"
                 [] DecoratingCall.fn = "patch" -> "PATCH"
                 [] DecoratingCall.fn = "delete" -> "DELETE")
        /\ AttachedMeta.path = DecoratingCall.path

\* C9 witness: router.patch("/users/{user_id}") was applied to a class.
C9_Witness ==
    /\ last_op.op = "decorate"
    /\ DecoratingCall.fn = "patch"
    /\ DecoratingCall.path = "/users/{user_id}"
    /\ AttachedMeta.method = "PATCH"
    /\ AttachedMeta.path = "/users/{user_id}"

\* C10: every attempt to assign method, path or servers on an attached
\* RouteMeta raises the frozen-instance error and leaves the metadata of
\* every class as it was.
C10_RouteMetaRejectsMutation ==
    [][last_op'.op = "setattr" =>
          (error' = FrozenInstanceError /\ route_meta' = route_meta)]_vars

\* C10 witness: an assignment to servers was attempted on the metadata of a
\* decorated class and raised.
C10_Witness ==
    /\ last_op.op = "setattr"
    /\ last_op.attr = "servers"
    /\ error = FrozenInstanceError
    /\ DOMAIN route_meta = EndpointClasses

\* C16: a call of _collect_params that follows an earlier call on the same
\* instance returns the same query, path and header maps (same keys, same
\* values, same order) and the same body as that call.
C16_ClassifyIsIdempotent ==
    (pc = "returned" /\ prev_result /= NoResult) =>
        CollectResult(query_params, path_params, header_params, body_data) = prev_result[1]

\* C16 witness: a second call returned, with a query entry and a body, what
\* the first had returned.
C16_Witness ==
    /\ pc = "returned"
    /\ prev_result /= NoResult
    /\ query_params /= << >>
    /\ body_data /= None
    /\ prev_result[1].query = query_params

\* The error the specification names; the source defines no such exception.
ConfigurationError == "ConfigurationError"

\* The fields the class itself declares with a marker that has no in_.
BareMarked == {i \in FieldIndexes : OwnMarked(i) /\ MarkerOf(i).in_ = NoIn}

\* Two fields that the class itself declares with markers of one kind have
\* the same wire name.
WireNamesCollide ==
    \E k \in MapKinds : \E i, j \in OwnOfKind(k) : i /= j /\ WireName(i) = WireName(j)

\* C21 as stated: _collect_params raises only for a class with a marker that
\* has no kind, it does raise for such a class, and what it raises is
\* ConfigurationError.
C21_MalformedMarkerIsConfigurationError ==
    /\ pc = "raised" => (BareMarked /= {} /\ error = ConfigurationError)
    /\ BareMarked /= {} => pc /= "returned"

\* C25 as stated: on return a field that carries a marker and is inherited
\* from a base class has its entry in the map of its marker's kind, and an
\* inherited Body field that is the last Body field is the body.
C25_InheritedFieldsAreClassified ==
    pc = "returned" =>
        /\ \A k \in MapKinds : \A i \in OfKind(k) \ OwnOfKind(k) :
              DictHas(Bucket(k), WireName(i))
        /\ \A i \in OfKind("body") \ OwnOfKind("body") :
              i = Latest(OfKind("body")) => body_data = self[NameOf(i)]

\* C26: two fields of one kind with the same wire name do not make
\* _collect_params raise; on return the map holds one entry under that name,
\* with the value of the later declared field, and so fewer entries than
\* the class declares fields of that kind.
C26_SameWireNameLaterFieldWins ==
    /\ (WireNamesCollide /\ BareMarked = {}) => pc /= "raised"
    /\ pc = "returned" =>
        \A k \in MapKinds : \A i \in OwnOfKind(k) :
            (Cardinality(SameEntry(k, i)) > 1 /\ SameEntry(k, i) \subseteq OwnOfKind(k)) =>
                /\ Cardinality({p \in DOMAIN Bucket(k) : Bucket(k)[p][1] = WireName(i)}) = 1
                /\ Bucket(k)[CHOOSE p \in DOMAIN Bucket(k) : Bucket(k)[p][1] = WireName(i)][2]
                        = self[NameOf(Latest(SameEntry(k, i)))]
                /\ Len(Bucket(k)) < Cardinality(OwnOfKind(k))

\* C26 witness: a Header field whose alias is the name of the Header field
\* declared after it; the map holds the one entry, with the second value.
C26_Witness ==
    /\ pc = "returned"
    /\ OwnOfKind("header") = {1, 2}
    /\ MarkerOf(1).alias = NameOf(2)
    /\ MarkerOf(2).alias = None
    /\ self[NameOf(1)] /= self[NameOf(2)]
    /\ header_params = <<<<NameOf(2), self[NameOf(2)]>>>>

\* C27: the empty string is never a key of a map, and on return a field whose
\* marker has the alias "" is in the map of its kind under its declared name.
C27_EmptyAliasIsNoAlias ==
    /\ \A k \in MapKinds : "" \notin DictKeys(Bucket(k))
    /\ pc = "returned" =>
        \A k \in MapKinds : \A i \in OwnOfKind(k) :
            MarkerOf(i).alias = "" => DictHas(Bucket(k), NameOf(i))

\* C27 witness: a Query field with alias "" was collected under its name.
C27_Witness ==
    /\ pc = "returned"
    /\ OwnOfKind("query") = {1}
    /\ MarkerOf(1).alias = ""
    /\ query_params = <<<<NameOf(1), self[NameOf(1)]>>>>
    /\ self[NameOf(1)] /= None

(***************************************************************************)
(* Marker construction: the claims                                         *)
(***************************************************************************)
\* The latest constructor call, and whether it was given a default.
MarkerCall == param.call[1]

KindMarkerCalled == param.call /= << >> /\ MarkerCall.class \in {"Path", "Query", "Header", "Body"}

DefaultGiven == MarkerCall.args /= << >> \/ MarkerCall.default /= NotPassed

C12_MarkerDefaultIsUndefined ==
    (KindMarkerCalled /\ param.result /= << >>) =>
        param.result[1].default = PydanticUndefined

\* C12 witness: Header(default_factory=..., alias=..., convert_underscores=False)
\* was constructed, and its default is PydanticUndefined.
C12_Witness ==
    /\ KindMarkerCalled
    /\ MarkerCall.class = "Header"
    /\ MarkerCall.default_factory = "time.time"
    /\ MarkerCall.alias = "X-Request-ID"
    /\ param.result /= << >>
    /\ param.result[1].default_factory = "time.time"
    /\ param.result[1].default = PydanticUndefined

(***************************************************************************)
(* The decorated endpoint: the claims                                      *)
(***************************************************************************)
\* The fields of the class that are named like a field of RouteMeta.
RouteNamedFields == {i \in FieldIndexes : NameOf(i) \in RouteMetaFields}

\* The RouteMeta that the decorator at hand attaches.
MetaOfDecorator ==
    RouteMeta(decorator[1].method, decorator[1].path, decorator[1].servers)

\* A step that applies the decorator, and a step that calls send: the steps
\* of _collect_params move pc or idx, every other operation sets last_op.
DecorateStep == last_op'.op = "decorate" /\ pc' = pc /\ idx' = idx

SendStep == last_op'.op = "send" /\ pc' = pc /\ idx' = idx

\* C13: for an endpoint class with fields named method, path or servers, the
\* instance keeps the values its caller gave; once the class is decorated its
\* RouteMeta holds the decorator's values, also while and after
\* _collect_params runs; and _collect_params returns each such field under
\* its own name in the map (or as the body) of its marker's kind, with the
\* instance's value.
C13_NamespaceIsolation ==
    RouteNamedFields /= {} =>
        /\ self = Supplied(cls)
        /\ last_op.op = "decorate" =>
            /\ EndpointClass \in DOMAIN route_meta
            /\ route_meta[EndpointClass] = MetaOfDecorator
        /\ pc = "returned" =>
            /\ \A k \in MapKinds : \A i \in RouteNamedFields \cap OfKind(k) :
                /\ DictHas(Bucket(k), NameOf(i))
                /\ DictGet(Bucket(k), NameOf(i)) = self[NameOf(i)]
            /\ \A i \in RouteNamedFields \cap OfKind("body") :
                i = Latest(OfKind("body")) => body_data = self[NameOf(i)]
            /\ KeysComeFromTheirKind

\* C13 witness: DebugEndpoint (method, path and servers all Query fields) was
\* decorated by router.post("/users"), and _collect_params returned the
\* instance's own method and path in the query map.
C13_Witness ==
    /\ RouteNamedFields = {1, 2, 3}
    /\ OfKind("query") = {1, 2, 3}
    /\ last_op.op = "decorate"
    /\ route_meta[EndpointClass].method = "POST"
    /\ route_meta[EndpointClass].path = "/users"
    /\ pc = "returned"
    /\ DictGet(query_params, "method") = self["method"]
    /\ DictGet(query_params, "path") = self["path"]
    /\ self["method"] /= "POST"

\* C14: applying a decorator to a class returns that same class, sets the
\* _route_meta of that class and of no other, and leaves the class's
\* declared fields and markers, and its instances, as they were.
C14_DecorationReturnsTheSameClass ==
    [][DecorateStep =>
        /\ last_op'.returned = last_op'.klass
        /\ DOMAIN route_meta' = DOMAIN route_meta \cup {last_op'.klass}
        /\ \A k \in DOMAIN route_meta \ {last_op'.klass} : route_meta'[k] = route_meta[k]
        /\ cls' = cls
        /\ self' = self]_vars

\* C14 witness: a class declaring three marked fields was decorated, and the
\* decorator returned it.
C14_Witness ==
    /\ last_op.op = "decorate"
    /\ last_op.klass = EndpointClass
    /\ last_op.returned = EndpointClass
    /\ EndpointClass \in DOMAIN route_meta
    /\ Cardinality({i \in FieldIndexes : OwnMarked(i)}) = 3

\* C15: every application of a decorator succeeds, and after it the class's
\* RouteMeta is exactly the method, path and servers of that decorator,
\* whatever the class had before.
C15_LastDecorationWins ==
    [][DecorateStep =>
        /\ error' = NoError
        /\ last_op'.klass \in DOMAIN route_meta'
        /\ route_meta'[last_op'.klass] = MetaOfDecorator]_vars

\* C15 witness: a decorator replaced a different RouteMeta that the class
\* already had, and the class holds the new one.
C15_Witness ==
    /\ last_op.op = "decorate"
    /\ last_op.replaced
    /\ error = NoError
    /\ route_meta[last_op.klass] = MetaOfDecorator

\* The set of {name} placeholders of a route path.
Placeholders(path) ==
    CASE path = "/users" -> {}
      [] path = "/users/{user_id}" -> {"user_id"}

\* The error the specification names; the source defines no such exception.
RoutingError == "RoutingError"

\* C17 as stated: send on an instance of a decorated class whose path
\* placeholders are not exactly the wire names of its Path fields fails with
\* RoutingError.
C17_SendRejectsPlaceholderMismatch ==
    [][(/\ SendStep
        /\ EndpointClass \in DOMAIN route_meta
        /\ Placeholders(route_meta[EndpointClass].path) /=
                {WireName(i) : i \in OfKind("path")})
        => error' = RoutingError]_vars

\* C18: send raises NotImplementedError, sends nothing through the context,
\* and leaves the instance's fields and every class's RouteMeta as they were.
C18_SendIsNotImplemented ==
    [][SendStep =>
        /\ error' = NotImplementedError
        /\ context' = context
        /\ self' = self
        /\ route_meta' = route_meta]_vars

\* C18 witness: send was called on an instance of a decorated class; it
\* raised NotImplementedError and the context has sent nothing.
C18_Witness ==
    /\ last_op.op = "send"
    /\ error = NotImplementedError
    /\ context = << >>
    /\ EndpointClass \in DOMAIN route_meta
    /\ self = Supplied(cls)

\* C19 as stated: the RouteMeta of a class changes only when a decorator is
\* applied to that class; no other operation, an append to the servers list
\* it holds included, changes its method, path or servers.
C19_RouteMetaChangesOnlyByDecoration ==
    [][\A k \in DOMAIN route_meta :
        route_meta'[k] /= route_meta[k] =>
            (last_op'.op = "decorate" /\ last_op'.klass = k)]_vars

\* C20 as stated: the method of every attached RouteMeta is one of GET, POST,
\* PUT, PATCH, DELETE.
C20_MethodIsOneOfFive ==
    \A k \in DOMAIN route_meta :
        route_meta[k].method \in {"GET", "POST", "PUT", "PATCH", "DELETE"}

\* A step of _collect_params: it moves pc or idx, which neither a routing
\* operation nor send does.
CollectStep == pc' /= pc \/ idx' /= idx

\* C22: a step of _collect_params changes no field value of the instance, no
\* declaration of the class and no RouteMeta, and sends nothing through the
\* context; what it returns as the body is the value of the last Body field
\* itself.
C22_ClassifyIsPure ==
    [][CollectStep =>
        /\ self' = self
        /\ cls' = cls
        /\ route_meta' = route_meta
        /\ context' = context
        /\ pc' = "returned" =>
            \A i \in OwnOfKind("body") :
                i = Latest(OwnOfKind("body")) => body_data' = self[NameOf(i)]]_vars

\* C22 witness: _collect_params returned the value of the Body field as the
\* body, on an instance of a decorated class, the context having sent nothing.
C22_Witness ==
    /\ pc = "returned"
    /\ OwnOfKind("body") = {1}
    /\ body_data = self[NameOf(1)]
    /\ body_data /= None
    /\ EndpointClass \in DOMAIN route_meta
    /\ context = << >>
    /\ self = Supplied(cls)

\* The fields that the running or returned call of _collect_params has visited.
Visited == {i \in FieldIndexes : i < idx}

\* C30: whatever is attached to the class (nothing, a RouteMeta, a RouteMeta
\* that replaced another), what _collect_params has collected is given by the
\* declared fields, their markers and the instance's values alone: each map
\* holds exactly the wire names of the visited fields of its kind, each with
\* the value of the latest visited field of that name, and the body is the
\* value of the latest visited Body field, None without one.
C30_ClassifyIgnoresRouteMeta ==
    pc \in {"loop", "returned"} =>
        /\ \A k \in MapKinds :
            /\ DictKeys(Bucket(k)) = {WireName(i) : i \in OwnOfKind(k) \cap Visited}
            /\ Len(Bucket(k)) = Cardinality(DictKeys(Bucket(k)))
            /\ \A i \in OwnOfKind(k) \cap Visited :
                DictGet(Bucket(k), WireName(i)) =
                    self[NameOf(Latest(SameEntry(k, i) \cap Visited))]
        /\ body_data =
            (IF OwnOfKind("body") \cap Visited = {} THEN None
             ELSE self[NameOf(Latest(OwnOfKind("body") \cap Visited))])

\* C30 witness: the loop of _collect_params has visited every field of
\* DebugEndpoint, having started after a decorator with method OPTIONS
\* replaced the RouteMeta the class had; the query map holds the instance's
\* values.
C30_Witness ==
    /\ pc = "loop"
    /\ idx > Len(cls.model_fields)
    /\ OwnOfKind("query") = {1, 2, 3}
    /\ last_op.op = "decorate"
    /\ last_op.replaced
    /\ route_meta[EndpointClass].method = "OPTIONS"
    /\ DictGet(query_params, "method") = self["method"]
    /\ Len(query_params) = 3

\* A step that assigns router.servers, and a step that calls a router method.
SetServersStep == last_op'.op = "set_servers" /\ pc' = pc /\ idx' = idx

CallStep == last_op'.op = "call" /\ pc' = pc /\ idx' = idx

\* C28: assigning router.servers changes neither the RouteMeta of any class
\* nor the decorator already created; a decorator attaches the servers
\* resolved from the router's servers as they were when the router method
\* was called, whatever they are when it is applied; and a router method
\* called after the assignment resolves against the new value.
C28_RouterServersCapturedAtCall ==
    [][/\ SetServersStep => (route_meta' = route_meta /\ decorator' = decorator)
       /\ DecorateStep =>
            route_meta'[last_op'.klass].servers =
                PyOr(last_call[1].servers, last_call[1].self_servers)
       /\ CallStep =>
            /\ last_call'[1].self_servers = router_servers
            /\ decorator'[1].servers = PyOr(last_call'[1].servers, router_servers)]_vars

\* C28 witness: a decorator created by router.get(path) while the router's
\* servers were [A] was applied after router.servers was set to None, and
\* the class holds [A].
C28_Witness ==
    /\ last_op.op = "decorate"
    /\ last_call[1].servers = NoServers
    /\ last_call[1].self_servers = ServerList(<<ServerA>>)
    /\ router_servers = NoServers
    /\ route_meta[last_op.klass].servers = ServerList(<<ServerA>>)

\* C29 as stated: applying a decorator to a class changes the _route_meta of
\* no other class.
C29_NoOtherClassSeesTheDecoration ==
    [][DecorateStep =>
        \A B \in EndpointClasses \ {last_op'.klass} :
            GetRouteMeta(route_meta', B) = GetRouteMeta(route_meta, B)]_vars

\* C29 amended: applying a decorator to a class sets the _route_meta of that
\* class alone: every other class keeps the attribute it holds itself, or
\* keeps holding none; the base of the decorated class reads what it read
\* before; and the only other classes that read a changed _route_meta are
\* those that hold none themselves and derive from the decorated class.
C29_DecorationSetsOwnAttributeOnly ==
    [][DecorateStep =>
        /\ DOMAIN route_meta' = DOMAIN route_meta \cup {last_op'.klass}
        /\ \A B \in DOMAIN route_meta \ {last_op'.klass} :
              route_meta'[B] = route_meta[B]
        /\ BaseOf(last_op'.klass) \in EndpointClasses =>
              GetRouteMeta(route_meta', BaseOf(last_op'.klass))
                  = GetRouteMeta(route_meta, BaseOf(last_op'.klass))
        /\ \A B \in EndpointClasses \ {last_op'.klass} :
              GetRouteMeta(route_meta', B) /= GetRouteMeta(route_meta, B) =>
                  /\ B \notin DOMAIN route_meta
                  /\ BaseOf(B) = last_op'.klass
                  /\ GetRouteMeta(route_meta', B) = <<route_meta'[last_op'.klass]>>]_vars

\* C29 witness: the derived class was decorated after its base, with other
\* metadata, and each holds its own.
C29_Witness ==
    /\ last_op.op = "decorate"
    /\ last_op.klass = "GetUserById"
    /\ BaseOf("GetUserById") \in DOMAIN route_meta
    /\ route_meta["GetUserById"] /= route_meta[BaseOf("GetUserById")]
    /\ GetRouteMeta(route_meta, "GetUserById") /= GetRouteMeta(route_meta, "GetUsers")

(***************************************************************************)
(* A class declared a second time: the claims                              *)
(***************************************************************************)
\* A class was declared anew after _collect_params had returned for the class
\* DeclaredBefore, and ReturnedBefore is what it had returned.
DeclaredAnew == Len(prev_result) = 2

ReturnedBefore == prev_result[1]

DeclaredBefore == prev_result[2]

\* The annotation with the attributes of all its markers left at their defaults.
AnnotationWithoutAttributes(annotation) ==
    [annotation EXCEPT !.metadata =
        [j \in DOMAIN annotation.metadata |->
            [annotation.metadata[j] EXCEPT !.attributes = DefaultAttributes]]]

WithoutAttributes(klass) ==
    [klass EXCEPT !.annotations =
        [n \in DOMAIN klass.annotations |->
            AnnotationWithoutAttributes(klass.annotations[n])]]

\* Two classes that differ, and only in the documentation and constraint
\* attributes of their markers.
DifferInAttributesOnly(a, b) ==
    a /= b /\ WithoutAttributes(a) = WithoutAttributes(b)

\* Two classes that declare the same fields, in different orders.
DifferInOrderOnly(a, b) ==
    /\ a.model_fields /= b.model_fields
    /\ a.annotations = b.annotations
    /\ a.base_annotations = b.base_annotations
    /\ Len(a.model_fields) = Len(b.model_fields)
    /\ {a.model_fields[i] : i \in DOMAIN a.model_fields}
            = {b.model_fields[i] : i \in DOMAIN b.model_fields}

\* C23: for two classes that differ only in the examples, deprecated,
\* include_in_schema, json_schema_extra, description, ge, le and pattern of
\* their markers, and instances with the same field values, _collect_params
\* returns for the second the maps and the body it returned for the first,
\* and does not raise.
C23_AttributesDoNotInfluenceClassify ==
    (DeclaredAnew /\ DifferInAttributesOnly(DeclaredBefore, cls)) =>
        /\ pc /= "raised"
        /\ pc = "returned" =>
            CollectResult(query_params, path_params, header_params, body_data)
                = ReturnedBefore

\* C23 witness: _collect_params returned, for a class whose Query marker has
\* include_in_schema=False, deprecated=True, examples and constraints, the
\* query entry it had returned for the class without them.
C23_Witness ==
    /\ pc = "returned"
    /\ DeclaredAnew
    /\ DifferInAttributesOnly(DeclaredBefore, cls)
    /\ \E i \in OwnOfKind("query") :
          /\ MarkerOf(i).attributes = DocumentedAttributes
          /\ DictHas(query_params, WireName(i))
    /\ query_params = ReturnedBefore.query
    /\ query_params /= << >>

\* The first declared field of kind k that has the wire name w.
FirstField(k, w) ==
    CHOOSE i \in OwnOfKind(k) :
        WireName(i) = w /\ \A j \in OwnOfKind(k) : WireName(j) = w => i <= j

\* The entries of a map, whatever their order.
Entries(d) == {d[p] : p \in DOMAIN d}

\* C24: while _collect_params runs and when it has returned, every map holds
\* entries for fields of its kind visited so far, in the order in which the
\* first field of each wire name is declared; and for a class that declares
\* the fields of another in a different order, each map whose fields have
\* distinct wire names holds the entries it held for the other class.
C24_MapsFollowDeclarationOrder ==
    /\ pc \in {"loop", "returned"} =>
        \A k \in MapKinds :
            /\ DictKeys(Bucket(k)) \subseteq {WireName(i) : i \in OwnOfKind(k) \cap Visited}
            /\ \A p, q \in DOMAIN Bucket(k) :
                  p < q => FirstField(k, Bucket(k)[p][1]) < FirstField(k, Bucket(k)[q][1])
    /\ (pc = "returned" /\ DeclaredAnew /\ DifferInOrderOnly(DeclaredBefore, cls)) =>
        \A k \in MapKinds :
            (\A i, j \in OwnOfKind(k) : i /= j => WireName(i) /= WireName(j)) =>
                /\ Entries(Bucket(k)) = Entries(ReturnedBefore[k])
                /\ Len(Bucket(k)) = Len(ReturnedBefore[k])

\* C24 witness: two Query fields declared in the other order; the query map
\* returned holds the two entries it held before, the other one first.
C24_Witness ==
    /\ pc = "returned"
    /\ DeclaredAnew
    /\ DifferInOrderOnly(DeclaredBefore, cls)
    /\ OwnOfKind("query") = {1, 2}
    /\ Len(query_params) = 2
    /\ query_params[1] = ReturnedBefore.query[2]
    /\ query_params[2] = ReturnedBefore.query[1]
    /\ query_params[1][1] = NameOf(1)
    /\ query_params /= ReturnedBefore.query

=============================================================================
